---- MODULE Spec2Model ----
(***************************************************************************)
(* Forest MCP client node: credential resolution, session connection and   *)
(* the three host entry points (execute, getTools, getToolParameters).     *)
(* Strings are TLA+ strings; a JavaScript undefined is the value           *)
(* `undefined`.                                                            *)
(***************************************************************************)
EXTENDS Integers, Sequences, FiniteSets, TLC

VARIABLES
    op,             \* entry point being run: "idle", "execute", "getTools", "getToolParameters"
    pc,             \* position inside the entry point (its next await)
    invocation,     \* number of the current host invocation
    authentication, \* node parameter 'authentication'
    continueOnFail, \* host's continueOnFail() for this run
    toolId,         \* node parameter 'tool.value' (getToolParameters)
    cred,           \* what ctx.getCredentials did in this invocation
    resolved,       \* result of getAuthHeadersAndEndpoint
    withProtocol,   \* string handed to new URL() by normalizeAndValidateUrl
    connectAttempts,\* client.connect(transport) calls made in this invocation
    connectError,   \* error thrown by client.connect, if any
    client,         \* Result<Client, ConnectMcpClientError> of connectMcpClient
    sessions,       \* every Client ever connected: who opened it, close() calls
    items,          \* number of input items (getInputData().length)
    itemIndex,      \* loop counter of execute
    itemLog,        \* what happened while processing each item so far
    returnData,     \* output records pushed so far
    calls,          \* remote calls (listTools / callTool) of this invocation
    outcome,        \* how the entry point ended
    \* -- the tool catalog: getAllTools and the listTools call of getTools
    server,         \* the remote listTools: request cursor -> {tools, nextCursor}
    listOp,         \* "idle", "getAllTools" or "getTools"
    listPc,         \* "idle", "fetch" (awaiting listTools) or "done"
    cursor,         \* cursor argument of the current getAllTools call
    pending,        \* tools held by the getAllTools calls awaiting their tail
    listToolsCalls, \* cursor passed to each listTools call, in call order
    pages,          \* response of each listTools call, in call order
    listResult,         \* what getAllTools / getTools returned
    filter,         \* filter argument of getTools
    \* -- the schema mapper: convertJsonSchemaToResourceMapperFields
    schema,         \* tool.inputSchema
    requiredFields, \* tool.inputSchema.required
    fields,         \* the ResourceMapperField list returned
    mapPc,          \* "idle" or "returned"
    \* -- the parameter cleaner: cleanParameters
    tree,           \* the parameter tree handed to cleanParameters
    cleaned,        \* what cleanParameters returned
    cleanPc,        \* "idle", "called" or "returned"
    \* -- the content loop of execute
    resultContent,  \* result.content of the tool call
    convertToBinaryOption, \* options.convertToBinary
    outputItem,     \* the record pushed to returnData
    splitPc         \* "idle" or "pushed"

vars == <<op, pc, invocation, authentication, continueOnFail, toolId, cred,
          resolved, withProtocol, connectAttempts, connectError, client,
          sessions, items, itemIndex, itemLog, returnData, calls, outcome>>

listingVars == <<server, listOp, listPc, cursor, pending, listToolsCalls, pages,
                 listResult, filter>>

mapperVars == <<schema, requiredFields, fields, mapPc>>

cleanerVars == <<tree, cleaned, cleanPc>>

contentVars == <<resultContent, convertToBinaryOption, outputItem, splitPc>>

\* what the node's entry points leave alone
aside == <<listingVars, mapperVars, cleanerVars, contentVars>>

\* ---------------------------------------------------------------- bounds
MaxItems == 3
MaxInvocations == 2

\* ---------------------------------------------------------------- strings
undefined == "<undefined>"

IsSpace(c) == c \in {" ", "\t", "\n"}

RECURSIVE trimStart(_)
trimStart(s) ==
    IF Len(s) > 0 /\ IsSpace(SubSeq(s, 1, 1))
    THEN trimStart(SubSeq(s, 2, Len(s)))
    ELSE s

RECURSIVE trimEnd(_)
trimEnd(s) ==
    IF Len(s) > 0 /\ IsSpace(SubSeq(s, Len(s), Len(s)))
    THEN trimEnd(SubSeq(s, 1, Len(s) - 1))
    ELSE s

\* String.prototype.trim
trim(s) == trimEnd(trimStart(s))

\* String.prototype.endsWith
endsWith(s, suffix) ==
    /\ Len(s) >= Len(suffix)
    /\ SubSeq(s, Len(s) - Len(suffix) + 1, Len(s)) = suffix

\* String.prototype.includes
includes(s, sub) ==
    \E i \in 1..(Len(s) - Len(sub) + 1) : SubSeq(s, i, i + Len(sub) - 1) = sub

\* !x for a string or undefined
falsy(s) == s = undefined \/ s = ""

\* x?.trim() || ''
trimOrEmpty(x) == IF x = undefined THEN "" ELSE trim(x)

\* String.prototype.startsWith
startsWith(s, prefix) ==
    /\ Len(s) >= Len(prefix)
    /\ SubSeq(s, 1, Len(prefix)) = prefix

UpperToLower ==
    [A |-> "a", B |-> "b", C |-> "c", D |-> "d", E |-> "e", F |-> "f", G |-> "g",
     H |-> "h", I |-> "i", J |-> "j", K |-> "k", L |-> "l", M |-> "m", N |-> "n",
     O |-> "o", P |-> "p", Q |-> "q", R |-> "r", S |-> "s", T |-> "t", U |-> "u",
     V |-> "v", W |-> "w", X |-> "x", Y |-> "y", Z |-> "z"]

\* String.prototype.toLowerCase; also the /i flag of a regular expression
RECURSIVE toLowerCase(_)
toLowerCase(s) ==
    IF Len(s) = 0 THEN ""
    ELSE LET c == SubSeq(s, 1, 1)
         IN  (IF c \in DOMAIN UpperToLower THEN UpperToLower[c] ELSE c)
                \o toLowerCase(SubSeq(s, 2, Len(s)))

\* ---------------------------------------------------------------- Session Connector
\* /^https?:\/\//i.test(input)
hasHttpPrefix(input) ==
    LET lower == toLowerCase(input)
    IN  startsWith(lower, "http://") \/ startsWith(lower, "https://")

\* the scheme test without the /i flag
WithProtocolCaseSensitive(input) ==
    IF ~(startsWith(input, "http://") \/ startsWith(input, "https://"))
    THEN "https://" \o input
    ELSE input

\* const withProtocol = ... ? `https://${input}` : input
WithProtocol(input) ==
    IF ~hasHttpPrefix(input) THEN "https://" \o input ELSE input

RECURSIVE skipSlashes(_)
skipSlashes(s) ==
    IF Len(s) > 0 /\ SubSeq(s, 1, 1) \in {"/", "\\"}
    THEN skipSlashes(SubSeq(s, 2, Len(s)))
    ELSE s

RECURSIVE takeAuthority(_)
takeAuthority(s) ==
    IF Len(s) = 0 \/ SubSeq(s, 1, 1) \in {"/", "\\", "?", "#"}
    THEN ""
    ELSE SubSeq(s, 1, 1) \o takeAuthority(SubSeq(s, 2, Len(s)))

ForbiddenHostChars == {" ", "<", ">", "^", "|"}

\* new URL(s) for a string with an http(s) scheme: the WHATWG parser strips
\* surrounding spaces, skips the slashes after the scheme, and fails on an
\* empty host or a forbidden host code point.
urlParses(s) ==
    LET stripped  == trim(s)
        afterColon == IF startsWith(toLowerCase(stripped), "https:")
                      THEN SubSeq(stripped, 7, Len(stripped))
                      ELSE SubSeq(stripped, 6, Len(stripped))
        authority == takeAuthority(skipSlashes(afterColon))
    IN  /\ authority # ""
        /\ \A c \in ForbiddenHostChars : ~includes(authority, c)

normalizeAndValidateUrl(input) ==
    [ok |-> urlParses(WithProtocol(input)), href |-> WithProtocol(input)]

\* JavaScript Number(v) for the values an error's code field takes here:
\* a number is itself, a string of digits is its value, anything else is NaN (written -1).
DigitValue ==
    [c \in {"0", "1", "2", "3", "4", "5", "6", "7", "8", "9"} |->
        CASE c = "0" -> 0 [] c = "1" -> 1 [] c = "2" -> 2 [] c = "3" -> 3
          [] c = "4" -> 4 [] c = "5" -> 5 [] c = "6" -> 6 [] c = "7" -> 7
          [] c = "8" -> 8 [] c = "9" -> 9]

RECURSIVE digitsToNumber(_, _)
digitsToNumber(s, acc) ==
    IF Len(s) = 0 THEN acc
    ELSE IF SubSeq(s, 1, 1) \notin DOMAIN DigitValue THEN -1
    ELSE digitsToNumber(SubSeq(s, 2, Len(s)), acc * 10 + DigitValue[SubSeq(s, 1, 1)])

Number(v) ==
    IF v.type = "number" THEN v.num
    ELSE IF trim(v.str) = "" THEN 0
    ELSE digitsToNumber(trim(v.str), 0)

\* errorHasCode: the code field converts to `code`, or the message contains
\* its decimal digits.
errorHasCode(error, code) ==
    \/ (error.hasCode /\ Number(error.code) = code)
    \/ (error.hasMessage /\ includes(error.message, ToString(code)))

isUnauthorizedError(error) == errorHasCode(error, 401)

isForbiddenError(error) == errorHasCode(error, 403)

isNotFoundError(error) == errorHasCode(error, 404)

\* the catch block of connectMcpClient
classifyConnectError(error) ==
    IF isUnauthorizedError(error) \/ isForbiddenError(error) THEN "auth"
    ELSE IF isNotFoundError(error) THEN "not_found"
    ELSE "connection"

mapToNodeOperationError(type) ==
    CASE type = "invalid_url" ->
            "Could not connect to your Forest MCP server. The provided URL is invalid."
      [] type = "auth" ->
            "Could not connect to your Forest MCP server. Authentication failed."
      [] type = "not_found" ->
            "MCP server not found. The MCP server has not been setup on your Forest agent."
      [] OTHER -> "Could not connect to your Forest MCP server"

\* ---------------------------------------------------------------- Credential Resolver
\* return {}
EmptyEndpoint ==
    [completion |-> "return",
     headers |-> [present |-> FALSE, Authorization |-> undefined],
     endpointUrl |-> undefined]

\* return {headers: {Authorization: `Bearer ${token}`}, endpointUrl}
Endpoint(token, endpointUrl) ==
    [completion |-> "return",
     headers |-> [present |-> TRUE, Authorization |-> "Bearer " \o token],
     endpointUrl |-> endpointUrl]

\* the bearer branch without the trimming of serverUrl and token
resolveBearerNoTrim(lookup) ==
    IF lookup.status = "throws" THEN EmptyEndpoint
    ELSE IF lookup.status = "null" THEN EmptyEndpoint
    ELSE LET serverUrl   == IF lookup.serverUrl = undefined THEN "" ELSE lookup.serverUrl
             endpointUrl == IF endsWith(serverUrl, "/mcp") THEN serverUrl
                            ELSE serverUrl \o "/mcp"
         IN  IF falsy(lookup.token) THEN EmptyEndpoint
             ELSE Endpoint(lookup.token, endpointUrl)

\* case 'bearerAuth' of getAuthHeadersAndEndpoint, after the lookup
resolveBearer(lookup) ==
    IF lookup.status = "throws" THEN EmptyEndpoint
    ELSE IF lookup.status = "null" THEN EmptyEndpoint
    ELSE LET serverUrl   == trimOrEmpty(lookup.serverUrl)
             endpointUrl == IF endsWith(serverUrl, "/mcp") THEN serverUrl
                            ELSE serverUrl \o "/mcp"
             token       == trimOrEmpty(lookup.token)
         IN  IF token = "" THEN EmptyEndpoint
             ELSE Endpoint(token, endpointUrl)

\* the OAuth2 branch without the try/catch around the lookup
resolveOAuth2NoCatch(lookup) ==
    IF lookup.status = "throws"
    THEN [completion |-> "throw",
          headers |-> [present |-> FALSE, Authorization |-> undefined],
          endpointUrl |-> undefined]
    ELSE IF lookup.status = "null" THEN EmptyEndpoint
    ELSE LET serverUrl   == trimOrEmpty(lookup.serverUrl)
             endpointUrl == IF endsWith(serverUrl, "/mcp") THEN serverUrl
                            ELSE serverUrl \o "/mcp"
             accessToken == IF lookup.oauthTokenData.present
                            THEN trimOrEmpty(lookup.oauthTokenData.access_token)
                            ELSE ""
         IN  IF accessToken = "" THEN EmptyEndpoint
             ELSE Endpoint(accessToken, endpointUrl)

\* case 'mcpOAuth2Api' / default of getAuthHeadersAndEndpoint, after the lookup
resolveOAuth2(lookup) ==
    IF lookup.status = "throws" THEN EmptyEndpoint
    ELSE IF lookup.status = "null" THEN EmptyEndpoint
    ELSE LET serverUrl   == trimOrEmpty(lookup.serverUrl)
             endpointUrl == IF endsWith(serverUrl, "/mcp") THEN serverUrl
                            ELSE serverUrl \o "/mcp"
             accessToken == IF lookup.oauthTokenData.present
                            THEN trimOrEmpty(lookup.oauthTokenData.access_token)
                            ELSE ""
         IN  IF accessToken = "" THEN EmptyEndpoint
             ELSE Endpoint(accessToken, endpointUrl)

\* a switch whose default case is the bearer branch
getAuthHeadersAndEndpointDefaultBearer(auth, lookup) ==
    IF auth = "mcpOAuth2Api" THEN resolveOAuth2(lookup) ELSE resolveBearer(lookup)

getAuthHeadersAndEndpoint(auth, lookup) ==
    IF auth = "bearerAuth" THEN resolveBearer(lookup) ELSE resolveOAuth2(lookup)

\* ---------------------------------------------------------------- inputs
AuthenticationOptions == {"bearerAuth", "mcpOAuth2Api", "other"}

ServerUrls ==
    {undefined, "", "  ", "x.test", " https://x.test ", "https://x.test/mcp",
     "HTTP://x.test/mcp\n", "x y.test"}

Tokens == {undefined, "", " \t", "abc", " abc "}

NoTokenData == [present |-> FALSE, access_token |-> undefined]

\* what ctx.getCredentials('forestMcpApi') can do
BearerLookups ==
    {[status |-> st, serverUrl |-> undefined, token |-> undefined,
      oauthTokenData |-> NoTokenData] : st \in {"throws", "null"}}
    \cup
    {[status |-> "ok", serverUrl |-> u, token |-> t, oauthTokenData |-> NoTokenData] :
        u \in ServerUrls, t \in Tokens}

\* what ctx.getCredentials('forestMcpOAuth2Api') can do
OAuth2Lookups ==
    {[status |-> st, serverUrl |-> undefined, token |-> undefined,
      oauthTokenData |-> NoTokenData] : st \in {"throws", "null"}}
    \cup
    {[status |-> "ok", serverUrl |-> u, token |-> undefined, oauthTokenData |-> d] :
        u \in ServerUrls,
        d \in {NoTokenData} \cup {[present |-> TRUE, access_token |-> t] : t \in Tokens}}

Lookups(auth) == IF auth = "bearerAuth" THEN BearerLookups ELSE OAuth2Lookups

NoCode == [type |-> "number", num |-> 0, str |-> ""]

NumCode(n) == [type |-> "number", num |-> n, str |-> ""]

StrCode(t) == [type |-> "string", num |-> 0, str |-> t]

\* errors client.connect(transport) can throw; status is the HTTP status the
\* server answered with (0: none, the request never got an answer)
TransportErrors ==
    {[status |-> n, hasCode |-> TRUE, code |-> NumCode(n), hasMessage |-> TRUE,
      message |-> "Streamable HTTP error"] : n \in {401, 403, 404, 500}}
    \cup
    {[status |-> 401, hasCode |-> TRUE, code |-> StrCode("401"), hasMessage |-> FALSE,
      message |-> undefined],
     [status |-> 401, hasCode |-> FALSE, code |-> NoCode, hasMessage |-> TRUE,
      message |-> "Error POSTing to endpoint (HTTP 401): Unauthorized"],
     [status |-> 403, hasCode |-> FALSE, code |-> NoCode, hasMessage |-> TRUE,
      message |-> "Error POSTing to endpoint (HTTP 403): Forbidden"],
     [status |-> 404, hasCode |-> FALSE, code |-> NoCode, hasMessage |-> TRUE,
      message |-> "Error POSTing to endpoint (HTTP 404): Not Found"],
     [status |-> 500, hasCode |-> FALSE, code |-> NoCode, hasMessage |-> TRUE,
      message |-> "Error POSTing to endpoint (HTTP 500): Internal Server Error"],
     [status |-> 0, hasCode |-> TRUE, code |-> StrCode("ENOTFOUND"), hasMessage |-> TRUE,
      message |-> "getaddrinfo ENOTFOUND x.test"],
     [status |-> 0, hasCode |-> TRUE, code |-> StrCode("ECONNREFUSED"), hasMessage |-> TRUE,
      message |-> "connect ECONNREFUSED 127.0.0.1:4040"],
     [status |-> 404, hasCode |-> TRUE, code |-> NumCode(404), hasMessage |-> TRUE,
      message |-> "Error POSTing to endpoint (HTTP 404): no route /v1/403"],
     [status |-> 0, hasCode |-> FALSE, code |-> NoCode, hasMessage |-> TRUE,
      message |-> "fetch failed"]}

NoError ==
    [status |-> 0, hasCode |-> FALSE, code |-> NoCode, hasMessage |-> FALSE,
     message |-> undefined]

ToolIds == {"", "getUser", "missingTool"}

\* ---------------------------------------------------------------- state
NoClient == [ok |-> FALSE, type |-> "none", session |-> 0]

NoOutcome == [kind |-> "none", message |-> "", itemIndex |-> -1, data |-> <<>>]

Returned(data) == [kind |-> "returned", message |-> "", itemIndex |-> -1, data |-> data]

Thrown(message, index) ==
    [kind |-> "thrown", message |-> message, itemIndex |-> index, data |-> <<>>]

NodeInit ==
    /\ op = "idle"
    /\ pc = "idle"
    /\ invocation = 0
    /\ authentication = "bearerAuth"
    /\ continueOnFail = FALSE
    /\ toolId = ""
    /\ cred = [status |-> "none", serverUrl |-> undefined, token |-> undefined,
               oauthTokenData |-> NoTokenData]
    /\ resolved = EmptyEndpoint
    /\ withProtocol = undefined
    /\ connectAttempts = 0
    /\ connectError = NoError
    /\ client = NoClient
    /\ sessions = <<>>
    /\ items = 0
    /\ itemIndex = 0
    /\ itemLog = <<>>
    /\ returnData = <<>>
    /\ calls = <<>>
    /\ outcome = NoOutcome

\* The host calls an entry point; every invocation starts from fresh locals.
Invoke(entry) ==
    /\ op = "idle"
    /\ invocation < MaxInvocations
    /\ invocation' = invocation + 1
    /\ op' = entry
    /\ \E a \in AuthenticationOptions : authentication' = a
    /\ UNCHANGED <<cred, resolved, withProtocol, connectAttempts, connectError, client,
                   sessions, items, itemIndex, itemLog, returnData, calls>>
    /\ UNCHANGED aside

\* await getAuthHeadersAndEndpoint(this, authentication)
Resolve(lookup) ==
    /\ pc = "resolve"
    /\ cred' = lookup
    /\ resolved' = getAuthHeadersAndEndpoint(authentication, lookup)
    /\ UNCHANGED <<op, invocation, authentication, continueOnFail, toolId, withProtocol,
                   connectAttempts, connectError, client, sessions, items, itemIndex,
                   itemLog, returnData, calls>>
    /\ UNCHANGED aside

\* a connector that hands out the session it opened last, when there is one
connectedPooled ==
    IF Len(sessions) > 0
    THEN /\ client' = [ok |-> TRUE, type |-> "none", session |-> Len(sessions)]
         /\ UNCHANGED sessions
    ELSE /\ client' = [ok |-> TRUE, type |-> "none", session |-> 1]
         /\ sessions' = Append(sessions, [inv |-> invocation, closeCalls |-> 0])

\* new Client(...); await client.connect(transport); return createResultOk(client)
connected ==
    /\ client' = [ok |-> TRUE, type |-> "none", session |-> Len(sessions) + 1]
    /\ sessions' = Append(sessions, [inv |-> invocation, closeCalls |-> 0])

\* await connectMcpClient({endpointUrl, headers, name, version}); `thrown` is
\* what client.connect(transport) throws, NoError when it connects.
connectMcpClient(endpointUrl, thrown) ==
    LET endpoint == normalizeAndValidateUrl(endpointUrl)
    IN  /\ withProtocol' = endpoint.href
        /\ IF ~endpoint.ok
           THEN /\ thrown = NoError
                /\ client' = [ok |-> FALSE, type |-> "invalid_url", session |-> 0]
                /\ UNCHANGED <<connectAttempts, connectError, sessions>>
           ELSE /\ connectAttempts' = connectAttempts + 1
                /\ connectError' = thrown
                /\ IF thrown = NoError
                   THEN connected
                   ELSE /\ client' = [ok |-> FALSE, type |-> classifyConnectError(thrown),
                                      session |-> 0]
                        /\ UNCHANGED sessions

Connect(thrown) ==
    /\ pc = "connect"
    /\ connectMcpClient(resolved.endpointUrl, thrown)
    /\ UNCHANGED <<op, invocation, authentication, continueOnFail, toolId, cred, resolved,
                   itemIndex, itemLog, returnData, calls>>
    /\ UNCHANGED aside

\* a call made on the session: listTools, callTool or close
remoteCall(log, method, index) ==
    Append(log, [method |-> method, session |-> client.session, item |-> index])

\* the server's side of close(): the session is released
closed(session) == [sessions EXCEPT ![session].closeCalls = @ + 1]

\* ---------------------------------------------------------------- Forest.execute
ExecuteStart ==
    /\ Invoke("execute")
    /\ \E c \in BOOLEAN : continueOnFail' = c
    /\ pc' = "resolve"
    /\ UNCHANGED <<toolId, outcome>>

\* an execute that connects without looking at the resolved endpointUrl
ExecuteResolveNoCheck ==
    /\ op = "execute"
    /\ \E lookup \in Lookups(authentication) : Resolve(lookup)
    /\ pc' = "connect"
    /\ UNCHANGED outcome

ExecuteResolve ==
    /\ op = "execute"
    /\ \E lookup \in Lookups(authentication) : Resolve(lookup)
    /\ IF resolved'.completion = "throw"
       THEN /\ outcome' = Thrown("getCredentials failed", -1)
            /\ pc' = "done"
       ELSE IF falsy(resolved'.endpointUrl)
       THEN /\ outcome' = Thrown("Server URL is required in credentials", -1)
            /\ pc' = "done"
       ELSE /\ pc' = "connect"
            /\ UNCHANGED outcome

ExecuteConnect ==
    /\ op = "execute"
    /\ \E thrown \in {NoError} \cup TransportErrors : Connect(thrown)
    /\ IF ~client'.ok
       THEN /\ outcome' = Thrown(mapToNodeOperationError(client'.type), -1)
            /\ pc' = "done"
            /\ UNCHANGED items
       ELSE /\ \E n \in 0..MaxItems : items' = n
            /\ pc' = "loop"
            /\ UNCHANGED outcome

\* what can happen while one item is processed: everything succeeds, reading
\* the item's parameters throws, callTool rejects, or turning the result
\* into an output record throws
ItemResults == {"ok", "parameterError", "callToolError", "resultError"}

successRecord(index) == [kind |-> "success", pairedItem |-> index]

errorRecord(index) == [kind |-> "error", pairedItem |-> index]

\* a catch block that skips the failed item without an error record
catchItemErrorDropsRecord(result) ==
    IF continueOnFail
    THEN /\ itemIndex' = itemIndex + 1
         /\ UNCHANGED <<returnData, pc, outcome>>
    ELSE /\ outcome' = Thrown(result, itemIndex)
         /\ pc' = "done"
         /\ UNCHANGED <<returnData, itemIndex>>

\* a catch block that always records the error and goes on
catchItemErrorNeverThrows(result) ==
    /\ returnData' = Append(returnData, errorRecord(itemIndex))
    /\ itemIndex' = itemIndex + 1
    /\ UNCHANGED <<pc, outcome>>

\* catch (e) { ... } of the item loop
catchItemError(result) ==
    IF continueOnFail
    THEN /\ returnData' = Append(returnData, errorRecord(itemIndex))
         /\ itemIndex' = itemIndex + 1
         /\ UNCHANGED <<pc, outcome>>
    ELSE /\ outcome' = Thrown(result, itemIndex)
         /\ pc' = "done"
         /\ UNCHANGED <<returnData, itemIndex>>

\* one iteration of for (let itemIndex = 0; itemIndex < items.length; itemIndex++)
ExecuteItem ==
    /\ op = "execute"
    /\ pc = "loop"
    /\ itemIndex < items
    /\ \E result \in ItemResults :
        /\ itemLog' = Append(itemLog, result)
        /\ calls' = IF result = "parameterError" THEN calls
                    ELSE remoteCall(calls, "callTool", itemIndex)
        /\ IF result = "ok"
           THEN /\ returnData' = Append(returnData, successRecord(itemIndex))
                /\ itemIndex' = itemIndex + 1
                /\ UNCHANGED <<pc, outcome>>
           ELSE catchItemError(result)
    /\ UNCHANGED <<op, invocation, authentication, continueOnFail, toolId, cred, resolved,
                   withProtocol, connectAttempts, connectError, client, sessions, items>>
    /\ UNCHANGED aside

\* return [returnData]
ExecuteReturn ==
    /\ op = "execute"
    /\ pc = "loop"
    /\ itemIndex >= items
    /\ outcome' = Returned(returnData)
    /\ pc' = "done"
    /\ UNCHANGED <<op, invocation, authentication, continueOnFail, toolId, cred, resolved,
                   withProtocol, connectAttempts, connectError, client, sessions, items,
                   itemIndex, itemLog, returnData, calls>>
    /\ UNCHANGED aside

\* ---------------------------------------------------------------- listSearch.getTools
GetToolsStart ==
    /\ Invoke("getTools")
    /\ pc' = "resolve"
    /\ UNCHANGED <<continueOnFail, toolId, outcome>>

GetToolsResolve ==
    /\ op = "getTools"
    /\ \E lookup \in Lookups(authentication) : Resolve(lookup)
    /\ IF resolved'.completion = "throw"
       THEN /\ outcome' = Thrown("getCredentials failed", -1)
            /\ pc' = "done"
       ELSE IF falsy(resolved'.endpointUrl)
       THEN /\ outcome' = Returned(<<>>)
            /\ pc' = "done"
       ELSE /\ pc' = "connect"
            /\ UNCHANGED outcome

GetToolsConnect ==
    /\ op = "getTools"
    /\ \E thrown \in {NoError} \cup TransportErrors : Connect(thrown)
    /\ IF ~client'.ok
       THEN /\ outcome' = Thrown(mapToNodeOperationError(client'.type), -1)
            /\ pc' = "done"
       ELSE /\ pc' = "list"
            /\ UNCHANGED outcome
    /\ UNCHANGED items

\* try { listTools ... return } finally { await client.result.close() }
GetToolsList ==
    /\ op = "getTools"
    /\ pc = "list"
    /\ \E listed \in {"ok", "throws"} :
        outcome' = IF listed = "ok" THEN Returned(<<"getUser">>)
                   ELSE Thrown("listTools failed", -1)
    /\ calls' = remoteCall(remoteCall(calls, "listTools", -1), "close", -1)
    /\ sessions' = closed(client.session)
    /\ pc' = "done"
    /\ UNCHANGED <<op, invocation, authentication, continueOnFail, toolId, cred, resolved,
                   withProtocol, connectAttempts, connectError, client, items, itemIndex,
                   itemLog, returnData>>
    /\ UNCHANGED aside

\* ---------------------------------------------------------------- resourceMapping.getToolParameters
\* names of the tools the server's catalog holds
Catalog == {"getUser", "listUsers"}

GetToolParametersStart ==
    /\ Invoke("getToolParameters")
    /\ \E t \in ToolIds : toolId' = t
    /\ IF toolId' = ""
       THEN /\ outcome' = Returned(<<>>)
            /\ pc' = "done"
       ELSE /\ pc' = "resolve"
            /\ UNCHANGED outcome
    /\ UNCHANGED continueOnFail

GetToolParametersResolve ==
    /\ op = "getToolParameters"
    /\ \E lookup \in Lookups(authentication) : Resolve(lookup)
    /\ IF resolved'.completion = "throw"
       THEN /\ outcome' = Thrown("getCredentials failed", -1)
            /\ pc' = "done"
       ELSE IF falsy(resolved'.endpointUrl)
       THEN /\ outcome' = Returned(<<>>)
            /\ pc' = "done"
       ELSE /\ pc' = "connect"
            /\ UNCHANGED outcome

\* a schema lookup that reports a failed connection the way getTools does
GetToolParametersConnectThrows ==
    /\ op = "getToolParameters"
    /\ \E thrown \in {NoError} \cup TransportErrors : Connect(thrown)
    /\ IF ~client'.ok
       THEN /\ outcome' = Thrown(mapToNodeOperationError(client'.type), -1)
            /\ pc' = "done"
       ELSE /\ pc' = "list"
            /\ UNCHANGED outcome
    /\ UNCHANGED items

GetToolParametersConnect ==
    /\ op = "getToolParameters"
    /\ \E thrown \in {NoError} \cup TransportErrors : Connect(thrown)
    /\ IF ~client'.ok
       THEN /\ outcome' = Returned(<<>>)
            /\ pc' = "done"
       ELSE /\ pc' = "list"
            /\ UNCHANGED outcome
    /\ UNCHANGED items

\* the schema lookup with close() after the try block instead of in finally
GetToolParametersListNoFinally ==
    /\ op = "getToolParameters"
    /\ pc = "list"
    /\ \E listed \in {"ok", "throws"} :
        /\ outcome' = IF listed = "throws" THEN Thrown("listTools failed", -1)
                      ELSE IF toolId \notin Catalog THEN Returned(<<>>)
                      ELSE Returned(<<toolId>>)
        /\ IF listed = "throws"
           THEN /\ calls' = remoteCall(calls, "listTools", -1)
                /\ UNCHANGED sessions
           ELSE /\ calls' = remoteCall(remoteCall(calls, "listTools", -1), "close", -1)
                /\ sessions' = closed(client.session)
    /\ pc' = "done"
    /\ UNCHANGED <<op, invocation, authentication, continueOnFail, toolId, cred, resolved,
                   withProtocol, connectAttempts, connectError, client, items, itemIndex,
                   itemLog, returnData>>
    /\ UNCHANGED aside

\* try { getAllTools; find; map schema; return } finally { await client.result.close() }
GetToolParametersList ==
    /\ op = "getToolParameters"
    /\ pc = "list"
    /\ \E listed \in {"ok", "throws"} :
        outcome' = IF listed = "throws" THEN Thrown("listTools failed", -1)
                   ELSE IF toolId \notin Catalog THEN Returned(<<>>)
                   ELSE Returned(<<toolId>>)
    /\ calls' = remoteCall(remoteCall(calls, "listTools", -1), "close", -1)
    /\ sessions' = closed(client.session)
    /\ pc' = "done"
    /\ UNCHANGED <<op, invocation, authentication, continueOnFail, toolId, cred, resolved,
                   withProtocol, connectAttempts, connectError, client, items, itemIndex,
                   itemLog, returnData>>
    /\ UNCHANGED aside

\* ---------------------------------------------------------------- host
\* The entry point has returned or thrown; its locals are gone. Sessions
\* live in the remote server and survive unless they were closed.
Finish ==
    /\ pc = "done"
    /\ op' = "idle"
    /\ pc' = "idle"
    /\ authentication' = "bearerAuth"
    /\ continueOnFail' = FALSE
    /\ toolId' = ""
    /\ cred' = [status |-> "none", serverUrl |-> undefined, token |-> undefined,
                oauthTokenData |-> NoTokenData]
    /\ resolved' = EmptyEndpoint
    /\ withProtocol' = undefined
    /\ connectAttempts' = 0
    /\ connectError' = NoError
    /\ client' = NoClient
    /\ items' = 0
    /\ itemIndex' = 0
    /\ itemLog' = <<>>
    /\ returnData' = <<>>
    /\ calls' = <<>>
    /\ outcome' = NoOutcome
    /\ UNCHANGED <<invocation, sessions>>
    /\ UNCHANGED aside

\* ---------------------------------------------------------------- Tool Catalog Fetcher
MaxPages == 4

\* the cursors the server hands out; the first request carries none
Cursors == {undefined, "c1", "c2"}

Tool(name) == [name |-> name, description |-> "about " \o name]

\* the tools the server lists on the page it serves for a request cursor
PageTools(requestCursor) ==
    CASE requestCursor = undefined -> {<<Tool("getUser"), Tool("listUsers")>>, <<>>}
      [] requestCursor = "c1" -> {<<Tool("GetOrder")>>, <<Tool("getUser")>>}
      [] OTHER -> {<<Tool("listOrders"), Tool("deleteUser")>>, <<>>}

\* every listTools behaviour: a page and a next cursor (none, empty, or one
\* the server serves) for each request cursor; chains may end or loop
Servers ==
    {srv \in [Cursors -> [tools : UNION {PageTools(c) : c \in Cursors},
                          nextCursor : Cursors \cup {""}]] :
        \A c \in Cursors : srv[c].tools \in PageTools(c)}

Filters == {undefined, "", "user", "GET", "zzz"}

NoPage == [tools |-> <<>>, nextCursor |-> undefined]

NothingListed == [results |-> <<>>, paginationToken |-> undefined]

ListingIdle ==
    /\ server = [c \in Cursors |-> NoPage]
    /\ listOp = "idle"
    /\ listPc = "idle"
    /\ cursor = undefined
    /\ pending = <<>>
    /\ listToolsCalls = <<>>
    /\ pages = <<>>
    /\ listResult = NothingListed
    /\ filter = undefined

\* the calls return innermost first, each one the other way round:
\* tail.concat(tools)
RECURSIVE concatPendingReversed(_, _)
concatPendingReversed(held, tail) ==
    IF held = <<>> THEN tail
    ELSE concatPendingReversed(SubSeq(held, 1, Len(held) - 1), tail \o held[Len(held)])

\* the calls return innermost first, each one tools.concat(tail)
RECURSIVE concatPending(_, _)
concatPending(held, tail) ==
    IF held = <<>> THEN tail
    ELSE concatPending(SubSeq(held, 1, Len(held) - 1), held[Len(held)] \o tail)

\* a getAllTools that stops at a cursor it has already requested
afterListToolsWithRepetitionGuard(response) ==
    IF ~falsy(response.nextCursor)
        /\ \A i \in 1..Len(listToolsCalls) : listToolsCalls[i] # response.nextCursor
    THEN /\ pending' = Append(pending, response.tools)
         /\ cursor' = response.nextCursor
         /\ UNCHANGED <<listPc, listResult>>
    ELSE /\ listResult' = [results |-> concatPending(pending, response.tools),
                       paginationToken |-> undefined]
         /\ listPc' = "done"
         /\ UNCHANGED <<pending, cursor>>

\* getAllTools after its await: if (nextCursor) recurse, else return tools
afterListTools(response) ==
    IF ~falsy(response.nextCursor)
    THEN /\ pending' = Append(pending, response.tools)
         /\ cursor' = response.nextCursor
         /\ UNCHANGED <<listPc, listResult>>
    ELSE /\ listResult' = [results |-> concatPending(pending, response.tools),
                       paginationToken |-> undefined]
         /\ listPc' = "done"
         /\ UNCHANGED <<pending, cursor>>

\* getAllTools(client) is called
GetAllToolsCall ==
    /\ listOp = "idle"
    /\ listOp' = "getAllTools"
    /\ listPc' = "fetch"
    /\ UNCHANGED <<server, cursor, pending, listToolsCalls, pages, listResult, filter>>
    /\ UNCHANGED <<vars, mapperVars, cleanerVars, contentVars>>

\* one level of getAllTools: await client.listTools({cursor}), then recurse or return
GetAllToolsPage ==
    /\ listOp = "getAllTools"
    /\ listPc = "fetch"
    /\ Len(listToolsCalls) < MaxPages
    /\ listToolsCalls' = Append(listToolsCalls, cursor)
    /\ pages' = Append(pages, server[cursor])
    /\ afterListTools(server[cursor])
    /\ UNCHANGED <<server, listOp, filter>>
    /\ UNCHANGED <<vars, mapperVars, cleanerVars, contentVars>>

\* tools.map((tool) => ({name: tool.name, value: tool.name, description}))
RECURSIVE toSearchResults(_)
toSearchResults(tools) ==
    IF tools = <<>> THEN <<>>
    ELSE <<[name |-> tools[1].name, value |-> tools[1].name,
            description |-> tools[1].description]>>
            \o toSearchResults(SubSeq(tools, 2, Len(tools)))

\* result.tools.filter((tool) => tool.name.includes(filter)), the case kept
RECURSIVE filterToolsCaseSensitive(_, _)
filterToolsCaseSensitive(tools, f) ==
    IF tools = <<>> THEN <<>>
    ELSE (IF includes(tools[1].name, f) THEN <<tools[1]>> ELSE <<>>)
            \o filterToolsCaseSensitive(SubSeq(tools, 2, Len(tools)), f)

\* result.tools.filter((tool) => tool.name.toLowerCase().includes(filter.toLowerCase()))
RECURSIVE filterTools(_, _)
filterTools(tools, f) ==
    IF tools = <<>> THEN <<>>
    ELSE (IF includes(toLowerCase(tools[1].name), toLowerCase(f))
          THEN <<tools[1]>> ELSE <<>>)
            \o filterTools(SubSeq(tools, 2, Len(tools)), f)

\* the try block of getTools, given the page listTools answered with
searchResult(response, f) ==
    [results |-> toSearchResults(IF ~falsy(f) THEN filterTools(response.tools, f)
                                 ELSE response.tools),
     paginationToken |-> response.nextCursor]

\* getTools(filter, paginationToken) on a connected session
GetToolsSearch ==
    /\ listOp = "idle"
    /\ \E f \in Filters, paginationToken \in Cursors :
        /\ filter' = f
        /\ cursor' = paginationToken
        /\ listToolsCalls' = Append(listToolsCalls, paginationToken)
        /\ pages' = Append(pages, server[paginationToken])
        /\ listResult' = searchResult(server[paginationToken], f)
    /\ listOp' = "getTools"
    /\ listPc' = "done"
    /\ UNCHANGED <<server, pending>>
    /\ UNCHANGED <<vars, mapperVars, cleanerVars, contentVars>>

\* ---------------------------------------------------------------- Schema Mapper
MaxProperties == 3

\* a JSON value of an enum list
jsString(s) == [t |-> "string", s |-> s, n |-> 0, b |-> FALSE]

jsNumber(n) == [t |-> "number", s |-> "", n |-> n, b |-> FALSE]

jsBoolean(b) == [t |-> "boolean", s |-> "", n |-> 0, b |-> b]

jsNull == [t |-> "null", s |-> "", n |-> 0, b |-> FALSE]

\* JavaScript String(value)
String(value) ==
    CASE value.t = "string" -> value.s
      [] value.t = "number" -> ToString(value.n)
      [] value.t = "boolean" -> (IF value.b THEN "true" ELSE "false")
      [] value.t = "null" -> "null"

\* the `type` keyword of a schema: absent, one type name, or a list of type names
typeAbsent == [form |-> "absent", name |-> "", list |-> <<>>]

typeName(name) == [form |-> "name", name |-> name, list |-> <<>>]

typeList(list) == [form |-> "list", name |-> "", list |-> list]

\* the `enum` keyword of a schema: absent, a list of values, or a truthy non-list
enumAbsent == [form |-> "absent", items |-> <<>>]

enumList(values) == [form |-> "list", items |-> values]

enumOther == [form |-> "other", items |-> <<>>]

\* a value of schema.properties: a sub-schema, or the boolean schema true / false
propertySchema(type, description, enum) ==
    [isBoolean |-> FALSE, type |-> type, description |-> description, enum |-> enum]

booleanSchema ==
    [isBoolean |-> TRUE, type |-> typeAbsent, description |-> undefined,
     enum |-> enumAbsent]

\* switch (primaryType) of a function that reads `type` as a single name
jsonSchemaTypeToFieldTypeNoArrays(type) ==
    CASE type.form = "name" /\ type.name = "string" -> "string"
      [] type.form = "name" /\ type.name \in {"number", "integer"} -> "number"
      [] type.form = "name" /\ type.name = "boolean" -> "boolean"
      [] type.form = "name" /\ type.name = "array" -> "array"
      [] type.form = "name" /\ type.name = "object" -> "object"
      [] OTHER -> "string"

jsonSchemaTypeToFieldType(type) ==
    LET primaryType ==
            IF type.form = "list"
            THEN (IF Len(type.list) > 0 THEN type.list[1] ELSE undefined)
            ELSE type.name
    IN  CASE primaryType = "string" -> "string"
          [] primaryType \in {"number", "integer"} -> "number"
          [] primaryType = "boolean" -> "boolean"
          [] primaryType = "array" -> "array"
          [] primaryType = "object" -> "object"
          [] OTHER -> "string"

\* propertySchema.type || 'string'
typeOrString(type) ==
    IF type.form = "absent" \/ (type.form = "name" /\ type.name = "")
    THEN typeName("string")
    ELSE type

\* propertySchema.enum.map((value) => ({name: String(value), value}))
enumOptions(values) ==
    [i \in 1..Len(values) |-> [name |-> String(values[i]), value |-> values[i]]]

noOptions == [present |-> FALSE, items |-> <<>>]

\* one iteration of the loop for a property that is not a boolean schema
toField(key, value, required) ==
    LET fieldType == jsonSchemaTypeToFieldType(typeOrString(value.type))
        hasEnum == value.enum.form = "list" /\ Len(value.enum.items) > 0
    IN  [id |-> key,
         displayName |-> IF falsy(value.description) THEN key
                         ELSE key \o " - " \o value.description,
         type |-> IF hasEnum THEN "options" ELSE fieldType,
         required |-> \E i \in 1..Len(required) : required[i] = key,
         defaultMatch |-> FALSE,
         canBeUsedToMatch |-> FALSE,
         display |-> TRUE,
         defaultValue |-> CASE fieldType = "object" -> "{}"
                            [] fieldType = "array" -> "[]"
                            [] OTHER -> undefined,
         options |-> IF hasEnum
                     THEN [present |-> TRUE, items |-> enumOptions(value.enum.items)]
                     ELSE noOptions]

\* a property key that is an array index: a canonical numeric string below 2^32 - 1
\* (the keys drawn here have at most nine digits, all below that limit)
isArrayIndex(key) ==
    /\ Len(key) > 0
    /\ Len(key) <= 9
    /\ digitsToNumber(key, 0) >= 0
    /\ Len(key) = 1 \/ SubSeq(key, 1, 1) # "0"

\* the entries at positions S, by ascending numeric key
RECURSIVE ascendingIndexEntries(_, _)
ascendingIndexEntries(entries, S) ==
    IF S = {} THEN <<>>
    ELSE LET first == CHOOSE i \in S : \A j \in S :
                        digitsToNumber(entries[i].key, 0) <= digitsToNumber(entries[j].key, 0)
         IN  <<entries[first]>> \o ascendingIndexEntries(entries, S \ {first})

\* an enumeration that keeps the order in which the keys were written
objectEntriesAsWritten(entries) == entries

\* Object.entries(obj): array-index keys ascending, then the other keys as created
objectEntries(entries) ==
    ascendingIndexEntries(entries, {i \in 1..Len(entries) : isArrayIndex(entries[i].key)})
        \o SelectSeq(entries, LAMBDA e : ~isArrayIndex(e.key))

\* the for loop over the entries
RECURSIVE convertEntries(_, _)
convertEntries(entries, required) ==
    IF entries = <<>> THEN <<>>
    ELSE (IF entries[1].value.isBoolean THEN <<>>
          ELSE <<toField(entries[1].key, entries[1].value, required)>>)
            \o convertEntries(SubSeq(entries, 2, Len(entries)), required)

convertJsonSchemaToResourceMapperFields(sch, required) ==
    IF ~(sch.type.form = "name" /\ sch.type.name = "object") \/ ~sch.properties.present
    THEN <<>>
    ELSE convertEntries(objectEntries(sch.properties.entries), required)

\* -- the schemas a tool may declare
Keys == {"name", "id", "2", "10"}

Types ==
    {typeAbsent}
        \cup {typeName(n) : n \in {"string", "number", "integer", "boolean", "array",
                                   "object", "null", ""}}
        \cup {typeList(l) : l \in {<<>>, <<"integer", "null">>, <<"null", "string">>,
                                   <<"object">>}}

Descriptions == {undefined, "", "The id"}

Enums ==
    {enumAbsent, enumOther, enumList(<<>>),
     enumList(<<jsString("a"), jsString("b")>>),
     enumList(<<jsNumber(2), jsNumber(1)>>),
     enumList(<<jsBoolean(TRUE), jsNull>>)}

PropertySchemas ==
    {booleanSchema}
        \cup {propertySchema(t, d, e) : t \in Types, d \in Descriptions, e \in Enums}

\* the property schemas used where a schema declares several properties
FewPropertySchemas ==
    {booleanSchema,
     propertySchema(typeName("string"), undefined, enumAbsent),
     propertySchema(typeList(<<"integer", "null">>), "The id", enumAbsent),
     propertySchema(typeName("object"), "", enumList(<<jsNumber(2), jsNumber(1)>>))}

\* n properties under distinct keys, in the order the schema declares them
PropertyLists(n) ==
    {entries \in [1..n -> [key : Keys, value : FewPropertySchemas]] :
        \A i, j \in 1..n : i # j => entries[i].key # entries[j].key}

properties(entries) == [present |-> TRUE, entries |-> entries]

noProperties == [present |-> FALSE, entries |-> <<>>]

NoSchema == [type |-> typeAbsent, properties |-> noProperties]

Schemas ==
    {[type |-> typeName("object"), properties |-> properties(entries)] :
        entries \in UNION {PropertyLists(n) : n \in 0..MaxProperties}}
        \cup {[type |-> typeName("object"),
               properties |-> properties(<<[key |-> k, value |-> p]>>)] :
                k \in Keys, p \in PropertySchemas}
        \cup {[type |-> t, properties |-> properties(entries)] :
                t \in {typeAbsent, typeName("array"), typeList(<<"object">>)},
                entries \in PropertyLists(1)}
        \cup {[type |-> typeName("object"), properties |-> noProperties], NoSchema}

\* Array.isArray(schema.required) ? schema.required : []
RequiredLists == {<<>>, <<"id">>, <<"2", "name">>}

MapperIdle ==
    /\ schema = NoSchema
    /\ requiredFields = <<>>
    /\ fields = <<>>
    /\ mapPc = "idle"

\* getToolParameters maps the input schema of the tool it found
ConvertSchema ==
    /\ mapPc = "idle"
    /\ fields' = convertJsonSchemaToResourceMapperFields(schema, requiredFields)
    /\ mapPc' = "returned"
    /\ UNCHANGED <<schema, requiredFields>>
    /\ UNCHANGED <<vars, listingVars, cleanerVars, contentVars>>

\* ---------------------------------------------------------------- Parameter Cleaner
MaxDepth == 2

\* a parameter tree: t is "undefined", "null", "scalar", "array" or "object";
\* kids are the elements of an array (key "") or the entries of an object, in
\* Object.entries order
undefinedNode == [t |-> "undefined", v |-> "", kids |-> <<>>]

nullNode == [t |-> "null", v |-> "", kids |-> <<>>]

scalarNode(v) == [t |-> "scalar", v |-> v, kids |-> <<>>]

arrayNode(elements) ==
    [t |-> "array", v |-> "",
     kids |-> [i \in 1..Len(elements) |-> [key |-> "", value |-> elements[i]]]]

objectNode(entries) == [t |-> "object", v |-> "", kids |-> entries]

\* typeof x === 'object' && x !== null && !Array.isArray(x) && Object.keys(x).length === 0
isEmptyObject(node) == node.t = "object" /\ node.kids = <<>>

\* a cleaner that tests a value for emptiness before cleaning it
RECURSIVE cleanParametersTestsBefore(_)
cleanParametersTestsBefore(obj) ==
    LET kept == SelectSeq(obj.kids, LAMBDA e : ~isEmptyObject(e.value))
        cleanedKids(kids) ==
            [i \in 1..Len(kids) |->
                [key |-> kids[i].key, value |-> cleanParametersTestsBefore(kids[i].value)]]
    IN  CASE obj.t = "array" ->
                [obj EXCEPT !.kids = SelectSeq(cleanedKids(obj.kids),
                                               LAMBDA e : e.value.t # "undefined")]
          [] obj.t = "object" ->
                [obj EXCEPT !.kids = SelectSeq(cleanedKids(kept),
                                               LAMBDA e : e.value.t # "undefined")]
          [] OTHER -> obj

RECURSIVE cleanParameters(_)
cleanParameters(obj) ==
    LET cleanedKids ==
            [i \in 1..Len(obj.kids) |->
                [key |-> obj.kids[i].key, value |-> cleanParameters(obj.kids[i].value)]]
    IN  CASE obj.t \in {"null", "undefined"} -> obj
          [] obj.t = "array" ->
                [obj EXCEPT !.kids = SelectSeq(cleanedKids,
                                               LAMBDA e : e.value.t # "undefined")]
          [] obj.t = "object" ->
                [obj EXCEPT !.kids = SelectSeq(cleanedKids,
                                LAMBDA e : e.value.t # "undefined" /\ ~isEmptyObject(e.value))]
          [] OTHER -> obj

\* -- the trees handed to the cleaner
Leaves ==
    {undefinedNode, nullNode, scalarNode("1"), scalarNode("a"), objectNode(<<>>),
     arrayNode(<<>>)}

Siblings == {undefinedNode, scalarNode("1"), objectNode(<<>>)}

\* the arrays and objects that hold inner, alone or next to one sibling
Wraps(inner) ==
    {arrayNode(<<inner>>), objectNode(<<[key |-> "a", value |-> inner]>>)}
        \cup {arrayNode(<<inner, s>>) : s \in Siblings}
        \cup {arrayNode(<<s, inner>>) : s \in Siblings}
        \cup {objectNode(<<[key |-> "a", value |-> inner], [key |-> "b", value |-> s]>>) :
                s \in Siblings}
        \cup {objectNode(<<[key |-> "a", value |-> s], [key |-> "b", value |-> inner]>>) :
                s \in Siblings}

RECURSIVE TreesOfDepth(_)
TreesOfDepth(d) ==
    IF d = 0 THEN Leaves
    ELSE LET shallower == TreesOfDepth(d - 1)
         IN  shallower \cup UNION {Wraps(inner) : inner \in shallower}

Trees == TreesOfDepth(MaxDepth)

CleanerIdle ==
    /\ tree = undefinedNode
    /\ cleaned = undefinedNode
    /\ cleanPc = "idle"

\* cleanParameters(tree) is called
CleanParameters ==
    /\ cleanPc = "called"
    /\ cleaned' = cleanParameters(tree)
    /\ cleanPc' = "returned"
    /\ UNCHANGED tree
    /\ UNCHANGED <<vars, listingVars, mapperVars, contentVars>>

\* ---------------------------------------------------------------- Result Content
MaxBlocks == 3

\* a field that an object does not carry
absentValue == [t |-> "undefined", s |-> "", n |-> 0, b |-> FALSE]

\* jsonParse(text, {fallbackValue: text}) for the texts used here: a number, a
\* literal or a quoted string parses, anything else falls back to the text itself
jsonParse(text) ==
    IF Len(text) > 0 /\ Len(text) <= 9 /\ digitsToNumber(text, 0) >= 0
            /\ (Len(text) = 1 \/ SubSeq(text, 1, 1) # "0")
    THEN jsNumber(digitsToNumber(text, 0))
    ELSE IF text = "true" THEN jsBoolean(TRUE)
    ELSE IF text = "false" THEN jsBoolean(FALSE)
    ELSE IF text = "null" THEN jsNull
    ELSE IF Len(text) >= 2 /\ SubSeq(text, 1, 1) = "\"" /\ SubSeq(text, Len(text), Len(text)) = "\""
            /\ ~includes(SubSeq(text, 2, Len(text) - 1), "\"")
    THEN jsString(SubSeq(text, 2, Len(text) - 1))
    ELSE jsString(text)

\* Buffer.from(data, 'base64') for the payloads used here
Base64Decoded == [d \in {"aGk=", "b2s="} |-> IF d = "aGk=" THEN "hi" ELSE "ok"]

\* a content block of a CallToolResult
textBlock(text) == [type |-> "text", text |-> text, data |-> undefined, mimeType |-> undefined]

mediaBlock(type, data, mimeType) ==
    [type |-> type, text |-> undefined, data |-> data, mimeType |-> mimeType]

resourceBlock == [type |-> "resource", text |-> undefined, data |-> undefined,
                  mimeType |-> undefined]

\* an element of json.content
contentItem(block, text) ==
    [type |-> block.type, text |-> text, data |-> block.data, mimeType |-> block.mimeType]

\* a binary key that counts from one
binaryKeyFromOne(binaryIndex) == "data_" \o ToString(binaryIndex + 1)

\* `data_${binaryIndex}`
binaryKey(binaryIndex) == "data_" \o ToString(binaryIndex)

\* this.helpers.prepareBinaryData(Buffer.from(data, 'base64'), undefined, mimeType)
prepareBinaryData(block) == [data |-> Base64Decoded[block.data], mimeType |-> block.mimeType]

\* the loop over result.content: what it leaves in content, binary and binaryIndex
RECURSIVE contentLoop(_, _, _)
contentLoop(blocks, convertToBinary, acc) ==
    IF blocks = <<>> THEN acc
    ELSE LET block == blocks[1]
             rest == SubSeq(blocks, 2, Len(blocks))
         IN  IF block.type = "text"
             THEN contentLoop(rest, convertToBinary,
                    [acc EXCEPT !.content = Append(@, contentItem(block, jsonParse(block.text)))])
             ELSE IF convertToBinary /\ block.type \in {"image", "audio"}
             THEN contentLoop(rest, convertToBinary,
                    [acc EXCEPT !.binary = Append(@, [key |-> binaryKey(acc.binaryIndex),
                                                      value |-> prepareBinaryData(block)]),
                                !.binaryIndex = @ + 1])
             ELSE contentLoop(rest, convertToBinary,
                    [acc EXCEPT !.content = Append(@, contentItem(block, absentValue))])

\* options.convertToBinary ?? true
convertToBinaryOrTrue(option) == IF option.set THEN option.value ELSE TRUE

\* the record pushed to returnData for one item
toOutputItem(blocks, option, index) ==
    LET done == contentLoop(blocks, convertToBinaryOrTrue(option),
                            [content |-> <<>>, binary |-> <<>>, binaryIndex |-> 0])
    IN  [json |-> [content |-> [present |-> Len(done.content) > 0, items |-> done.content]],
         binary |-> [present |-> Len(done.binary) > 0, entries |-> done.binary],
         pairedItem |-> [item |-> index]]

\* -- the results a tool may answer with
Blocks ==
    {textBlock("42"), textBlock("hello"), mediaBlock("image", "aGk=", "image/png"),
     mediaBlock("audio", "b2s=", "audio/mpeg"), resourceBlock}

Contents == UNION {[1..n -> Blocks] : n \in 0..MaxBlocks}

ConvertToBinaryOptions ==
    {[set |-> FALSE, value |-> FALSE], [set |-> TRUE, value |-> TRUE],
     [set |-> TRUE, value |-> FALSE]}

NoOutputItem ==
    [json |-> [content |-> [present |-> FALSE, items |-> <<>>]],
     binary |-> [present |-> FALSE, entries |-> <<>>],
     pairedItem |-> [item |-> 0]]

ContentIdle ==
    /\ resultContent = <<>>
    /\ convertToBinaryOption = [set |-> FALSE, value |-> FALSE]
    /\ outputItem = NoOutputItem
    /\ splitPc = "idle"

\* execute turns the result of callTool into the item's output record
PushOutputItem ==
    /\ splitPc = "called"
    /\ outputItem' = toOutputItem(resultContent, convertToBinaryOption, 0)
    /\ splitPc' = "pushed"
    /\ UNCHANGED <<resultContent, convertToBinaryOption>>
    /\ UNCHANGED <<vars, listingVars, mapperVars, cleanerVars>>

\* ---------------------------------------------------------------- specifications
ListingInit ==
    /\ NodeInit
    /\ MapperIdle
    /\ CleanerIdle
    /\ ContentIdle
    /\ \E srv \in Servers : server = srv
    /\ listOp = "idle"
    /\ listPc = "idle"
    /\ cursor = undefined
    /\ pending = <<>>
    /\ listToolsCalls = <<>>
    /\ pages = <<>>
    /\ listResult = NothingListed
    /\ filter = undefined

ListingNext ==
    \/ GetAllToolsCall
    \/ GetAllToolsPage
    \/ GetToolsSearch

\* the catalog operations against every server
SpecListing == ListingInit /\ [][ListingNext]_<<vars, aside>>

\* the same, with the event loop resuming getAllTools when listTools answers
SpecListingFair == SpecListing /\ WF_<<vars, aside>>(GetAllToolsPage)

MapperInit ==
    /\ NodeInit
    /\ ListingIdle
    /\ CleanerIdle
    /\ ContentIdle
    /\ schema \in Schemas
    /\ requiredFields \in RequiredLists
    /\ fields = <<>>
    /\ mapPc = "idle"

MapperNext == ConvertSchema

\* the schema mapper applied to every schema
SpecMapper == MapperInit /\ [][MapperNext]_<<vars, aside>>

CleanerInit ==
    /\ NodeInit
    /\ ListingIdle
    /\ MapperIdle
    /\ ContentIdle
    /\ tree \in Trees
    /\ cleaned = undefinedNode
    /\ cleanPc = "called"

CleanerNext == CleanParameters

\* the cleaner applied to every tree
SpecCleaner == CleanerInit /\ [][CleanerNext]_<<vars, aside>>

ContentInit ==
    /\ NodeInit
    /\ ListingIdle
    /\ MapperIdle
    /\ CleanerIdle
    /\ resultContent \in Contents
    /\ convertToBinaryOption \in ConvertToBinaryOptions
    /\ outputItem = NoOutputItem
    /\ splitPc = "called"

ContentNext == PushOutputItem

\* the content loop applied to every tool result
SpecContent == ContentInit /\ [][ContentNext]_<<vars, aside>>

\* ---------------------------------------------------------------- the node
Init ==
    /\ NodeInit
    /\ ListingIdle
    /\ MapperIdle
    /\ CleanerIdle
    /\ ContentIdle

Next ==
    \/ ExecuteStart
    \/ ExecuteResolve
    \/ ExecuteConnect
    \/ ExecuteItem
    \/ ExecuteReturn
    \/ GetToolsStart
    \/ GetToolsResolve
    \/ GetToolsConnect
    \/ GetToolsList
    \/ GetToolParametersStart
    \/ GetToolParametersResolve
    \/ GetToolParametersConnect
    \/ GetToolParametersList
    \/ Finish

Spec == Init /\ [][Next]_<<vars, aside>>

\* ================================================================ claims
lookupOps == {"getTools", "getToolParameters"}

closeCalls == {i \in 1..Len(calls) : calls[i].method = "close"}

toolCalls == {i \in 1..Len(calls) : calls[i].method = "callTool"}

\* C1: every execute run whose connection succeeded has closed its session
\* by the time it returns or throws.
C1_ExecuteClosesSession ==
    (op = "execute" /\ pc = "done" /\ client.ok)
        => sessions[client.session].closeCalls >= 1

\* C2: a catalog or schema lookup that connected calls close() on its session
\* exactly once, as its last call, whether it returns or throws; close() is
\* never called on anything else.
C2_LookupClosesExactlyOnce ==
    op \in lookupOps =>
        /\ \A i \in closeCalls : client.ok /\ calls[i].session = client.session
        /\ pc = "done" =>
            IF client.ok
            THEN /\ Cardinality(closeCalls) = 1
                 /\ calls[Len(calls)].method = "close"
                 /\ sessions[client.session].closeCalls = 1
            ELSE closeCalls = {}

C2_Witness ==
    /\ op = "getToolParameters"
    /\ pc = "done"
    /\ client.ok
    /\ outcome.kind = "thrown"
    /\ sessions[client.session].closeCalls = 1

\* C3: with continue-on-failure, a connected execute returns one record per
\* input item, the k-th tagged with index k, a success record where the item
\* succeeded and an error record where it failed.
C3_OneRecordPerItem ==
    (op = "execute" /\ continueOnFail /\ outcome.kind = "returned") =>
        /\ Len(outcome.data) = items
        /\ Len(itemLog) = items
        /\ \A k \in 1..items :
            /\ outcome.data[k].pairedItem = k - 1
            /\ outcome.data[k].kind = IF itemLog[k] = "ok" THEN "success" ELSE "error"

C3_Witness ==
    /\ op = "execute"
    /\ continueOnFail
    /\ outcome.kind = "returned"
    /\ items >= 3
    /\ itemLog[1] = "callToolError"
    /\ itemLog[2] = "ok"
    /\ itemLog[3] = "parameterError"

firstFailure ==
    CHOOSE k \in 1..Len(itemLog) :
        itemLog[k] # "ok" /\ \A j \in 1..(k - 1) : itemLog[j] = "ok"

\* C4: without continue-on-failure, the first failing item ends the run:
\* execute throws with that item's index, no later item is processed or
\* sent to callTool, and nothing is returned.
C4_FirstFailureAborts ==
    (op = "execute" /\ ~continueOnFail /\ \E k \in 1..Len(itemLog) : itemLog[k] # "ok") =>
        /\ pc = "done"
        /\ outcome.kind = "thrown"
        /\ outcome.itemIndex = firstFailure - 1
        /\ Len(itemLog) = firstFailure
        /\ \A i \in toolCalls : calls[i].item <= firstFailure - 1
        /\ outcome.data = <<>>

C4_Witness ==
    /\ op = "execute"
    /\ ~continueOnFail
    /\ items >= 3
    /\ outcome.kind = "thrown"
    /\ outcome.itemIndex = 1
    /\ itemLog = <<"ok", "callToolError">>

\* the token the authentication mode reads from the stored credentials
storedToken ==
    IF authentication = "bearerAuth" THEN cred.token
    ELSE IF cred.oauthTokenData.present THEN cred.oauthTokenData.access_token
    ELSE undefined

blank(x) == x = undefined \/ trim(x) = ""

\* C5: absent or incomplete credentials (no server URL or no token, after
\* trimming) resolve to the empty endpoint, and execute then raises
\* 'Server URL is required in credentials' without a connection attempt.
C5_IncompleteResolvesEmpty ==
    (cred.status # "none"
        /\ (cred.status \in {"throws", "null"} \/ blank(cred.serverUrl) \/ blank(storedToken)))
    => /\ resolved = EmptyEndpoint
       /\ connectAttempts = 0
       /\ (op = "execute" /\ pc = "done")
            => outcome = Thrown("Server URL is required in credentials", -1)

\* C6: a credential lookup that throws resolves to the empty endpoint in
\* either mode; the exception is not propagated, so the entry point goes on
\* as for unconfigured credentials.
C6_LookupFailureIsSoft ==
    cred.status = "throws" =>
        /\ resolved = EmptyEndpoint
        /\ pc = "done"
        /\ connectAttempts = 0
        /\ outcome = IF op = "execute"
                     THEN Thrown("Server URL is required in credentials", -1)
                     ELSE Returned(<<>>)

C6_Witness ==
    /\ cred.status = "throws"
    /\ authentication = "mcpOAuth2Api"
    /\ op = "getTools"
    /\ outcome = Returned(<<>>)

expectedEndpointUrl ==
    IF endsWith(trim(cred.serverUrl), "/mcp") THEN trim(cred.serverUrl)
    ELSE trim(cred.serverUrl) \o "/mcp"

resolvesAsStated ==
    /\ resolved.completion = "return"
    /\ resolved.endpointUrl = expectedEndpointUrl
    /\ resolved.headers.present
    /\ resolved.headers.Authorization = "Bearer " \o trim(storedToken)

\* C7 as stated: a non-empty serverUrl and a non-empty token resolve to the
\* trimmed URL with the /mcp suffix and to the header Bearer <trimmed token>.
C7_NonEmptyResolves ==
    (cred.status = "ok" /\ ~falsy(cred.serverUrl) /\ ~falsy(storedToken))
        => resolvesAsStated

\* C7 amended: the same, for a token that is non-empty after trimming; the
\* stored {serverUrl: 'https://x.test', token: 'abc'} resolves to
\* https://x.test/mcp and Bearer abc; a token that is only whitespace
\* resolves to the empty endpoint.
C7_NonBlankTokenResolves ==
    /\ (cred.status = "ok" /\ ~falsy(storedToken) /\ blank(storedToken))
            => resolved = EmptyEndpoint
    /\ (cred.status = "ok" /\ ~falsy(cred.serverUrl) /\ ~blank(storedToken))
            => resolvesAsStated
    /\ (cred.status = "ok" /\ cred.serverUrl = "https://x.test" /\ storedToken = "abc")
            => /\ resolved.endpointUrl = "https://x.test/mcp"
               /\ resolved.headers.Authorization = "Bearer abc"

C7_Witness ==
    /\ cred.status = "ok"
    /\ cred.serverUrl = " https://x.test "
    /\ storedToken = " abc "
    /\ resolved.endpointUrl = "https://x.test/mcp"
    /\ resolved.headers.Authorization = "Bearer abc"

\* C8: a failed connection is classified by the HTTP status it carries:
\* 401 or 403 as auth, 404 as not_found, any other or none as connection.
C8_ClassifiedByStatus ==
    connectError # NoError =>
        client.type = CASE connectError.status \in {401, 403} -> "auth"
                        [] connectError.status = 404 -> "not_found"
                        [] OTHER -> "connection"

schemePrefixed(input) ==
    \/ Len(input) >= 7 /\ toLowerCase(SubSeq(input, 1, 7)) = "http://"
    \/ Len(input) >= 8 /\ toLowerCase(SubSeq(input, 1, 8)) = "https://"

\* C9: the connector prefixes https:// to an endpoint without an http(s)
\* scheme and leaves a schemed endpoint as it is; when the result does not
\* parse as a URL the outcome is invalid_url and no connection is attempted.
C9_EndpointNormalization ==
    withProtocol # undefined =>
        /\ withProtocol = IF schemePrefixed(resolved.endpointUrl)
                          THEN resolved.endpointUrl
                          ELSE "https://" \o resolved.endpointUrl
        /\ ~urlParses(withProtocol) =>
            /\ client = [ok |-> FALSE, type |-> "invalid_url", session |-> 0]
            /\ connectAttempts = 0
            /\ \A i \in 1..Len(sessions) : sessions[i].inv # invocation
        /\ urlParses(withProtocol) => client.type # "invalid_url"

C9_Witness ==
    /\ resolved.endpointUrl = "x y.test/mcp"
    /\ withProtocol = "https://x y.test/mcp"
    /\ client.type = "invalid_url"
    /\ outcome.kind = "thrown"

\* C10: an invocation makes at most one connection attempt, opens at most
\* one session, and makes every remote call on the session it opened itself;
\* all items of an execute run share that session.
C10_OneFreshSessionPerInvocation ==
    /\ connectAttempts <= 1
    /\ Cardinality({i \in 1..Len(sessions) : sessions[i].inv = invocation}) <= 1
    /\ (pc = "done" /\ ~client.ok) => calls = <<>>
    /\ \A i \in 1..Len(calls) :
        /\ client.ok
        /\ calls[i].session = client.session
        /\ sessions[calls[i].session].inv = invocation

C10_Witness ==
    /\ invocation = 2
    /\ op = "execute"
    /\ Len(sessions) = 2
    /\ sessions[1].inv = 1
    /\ Cardinality(toolCalls) >= 2

connectionFailureKinds == {"invalid_url", "auth", "not_found", "connection"}

\* C12 as stated: in both discovery operations a failed connection, of any
\* kind, ends in an error and never in an empty result.
C12_DiscoverySurfacesConnectionFailure ==
    (op \in lookupOps /\ pc = "done" /\ client.type \in connectionFailureKinds)
        => outcome.kind = "thrown"

\* C12 amended: getTools returns an empty result only for an empty
\* endpoint and throws the kind's error on a failed connection;
\* getToolParameters returns an empty field list for no selected tool, an
\* empty endpoint, a failed connection of any kind, and an unknown tool.
C12_DiscoveryDowngrades ==
    /\ (op = "getTools" /\ pc = "done") =>
        /\ client.type \in connectionFailureKinds
            => outcome = Thrown(mapToNodeOperationError(client.type), -1)
        /\ outcome = Returned(<<>>)
            => (falsy(resolved.endpointUrl) /\ connectAttempts = 0 /\ client = NoClient)
    /\ (op = "getToolParameters" /\ pc = "done") =>
        /\ client.type \in connectionFailureKinds => outcome = Returned(<<>>)
        /\ outcome = Returned(<<>>)
            => \/ toolId = ""
               \/ falsy(resolved.endpointUrl)
               \/ client.type \in connectionFailureKinds
               \/ (client.ok /\ toolId \notin Catalog)

C12_Witness ==
    /\ op = "getToolParameters"
    /\ pc = "done"
    /\ client.type = "auth"
    /\ connectError.status = 401
    /\ outcome = Returned(<<>>)

\* C19: remote calls are made only on a session this invocation connected;
\* a connection is attempted only after resolution gave a non-empty
\* endpointUrl; an execute whose connection failed has thrown that kind's
\* error with no item read and no callTool issued.
C19_ResolveConnectCall ==
    /\ calls # <<>> =>
        /\ client.ok
        /\ connectAttempts = 1
        /\ sessions[client.session].inv = invocation
    /\ (connectAttempts > 0 \/ withProtocol # undefined \/ client # NoClient) =>
        /\ cred.status # "none"
        /\ ~falsy(resolved.endpointUrl)
    /\ (op = "execute" /\ client.type \in connectionFailureKinds) =>
        /\ pc = "done"
        /\ outcome = Thrown(mapToNodeOperationError(client.type), -1)
        /\ itemLog = <<>>
        /\ calls = <<>>
        /\ returnData = <<>>

C19_Witness ==
    /\ op = "execute"
    /\ pc = "done"
    /\ client.type = "not_found"
    /\ connectAttempts = 1
    /\ outcome.message =
        "MCP server not found. The MCP server has not been setup on your Forest agent."

bearerTokenOf(header) == SubSeq(header, Len("Bearer ") + 1, Len(header))

\* C20: a resolved endpoint is all empty or all populated; populated, its
\* endpointUrl ends with /mcp and its Authorization header is 'Bearer '
\* and a non-empty token without surrounding whitespace; every
\* authentication value but 'bearerAuth' reads the OAuth2 access token.
C20_AllOrNothing ==
    cred.status # "none" =>
        /\ resolved.completion = "return"
        /\ resolved.headers.present <=> resolved.endpointUrl # undefined
        /\ ~resolved.headers.present => resolved.headers.Authorization = undefined
        /\ resolved.headers.present =>
            /\ endsWith(resolved.endpointUrl, "/mcp")
            /\ startsWith(resolved.headers.Authorization, "Bearer ")
            /\ LET token == bearerTokenOf(resolved.headers.Authorization)
               IN  /\ token # ""
                   /\ ~IsSpace(SubSeq(token, 1, 1))
                   /\ ~IsSpace(SubSeq(token, Len(token), Len(token)))
        /\ authentication # "bearerAuth" =>
            /\ resolved.headers.present
                <=> (cred.status = "ok" /\ cred.oauthTokenData.present
                        /\ ~blank(cred.oauthTokenData.access_token))
            /\ resolved.headers.present =>
                bearerTokenOf(resolved.headers.Authorization)
                    = trim(cred.oauthTokenData.access_token)

C20_Witness ==
    /\ authentication = "other"
    /\ cred.status = "ok"
    /\ cred.oauthTokenData.access_token = " abc "
    /\ resolved.headers.Authorization = "Bearer abc"
    /\ resolved.endpointUrl = "/mcp"

RECURSIVE flatten(_)
flatten(seqs) == IF seqs = <<>> THEN <<>> ELSE seqs[1] \o flatten(Tail(seqs))

\* C11: getAllTools passes no cursor to its first listTools call and to each
\* later call the cursor the call before returned; it goes on while pages
\* carry a next cursor and returns at the first page without one, with the
\* concatenation of all pages' tools in page order.
C11_GetAllToolsConcatenatesPages ==
    listOp = "getAllTools" =>
        /\ Len(pages) = Len(listToolsCalls)
        /\ \A k \in 1..Len(listToolsCalls) :
            listToolsCalls[k] = IF k = 1 THEN undefined ELSE pages[k - 1].nextCursor
        /\ \A k \in 1..(Len(pages) - 1) : ~falsy(pages[k].nextCursor)
        /\ listPc = "done" <=> (pages # <<>> /\ falsy(pages[Len(pages)].nextCursor))
        /\ listPc = "done" =>
            listResult.results = flatten([k \in 1..Len(pages) |-> pages[k].tools])

C11_Witness ==
    /\ listOp = "getAllTools"
    /\ listPc = "done"
    /\ listToolsCalls = <<undefined, "c2", "c1">>
    /\ listResult.results = <<Tool("getUser"), Tool("listUsers"), Tool("listOrders"),
                          Tool("deleteUser"), Tool("GetOrder")>>

containsIgnoringCase(name, f) ==
    \E i \in 1..(Len(name) - Len(f) + 1) :
        toLowerCase(SubSeq(name, i, i + Len(f) - 1)) = toLowerCase(f)

matchesFilter(tool) == falsy(filter) \/ containsIgnoringCase(tool.name, filter)

\* C13: getTools calls listTools once, with its paginationToken; it returns
\* the tools of that page whose name contains the filter, ignoring case (all
\* of them without a filter), in page order, as {name, value: name,
\* description}, and the page's next cursor whatever the filter removed.
C13_SearchFiltersOnePage ==
    (listOp = "getTools" /\ listPc = "done") =>
        /\ listToolsCalls = <<cursor>>
        /\ listResult.paginationToken = server[cursor].nextCursor
        /\ LET kept == SelectSeq(server[cursor].tools, matchesFilter)
           IN  /\ Len(listResult.results) = Len(kept)
               /\ \A i \in 1..Len(kept) :
                    /\ listResult.results[i].name = kept[i].name
                    /\ listResult.results[i].value = kept[i].name
                    /\ listResult.results[i].description = kept[i].description

C13_Witness ==
    /\ listOp = "getTools"
    /\ filter = "GET"
    /\ cursor = "c1"
    /\ server["c1"].nextCursor = "c2"
    /\ Len(listResult.results) = 1
    /\ listResult.results[1].value = "GetOrder"
    /\ listResult.paginationToken = "c2"

RECURSIVE endsWithin(_, _)
endsWithin(c, n) ==
    /\ n > 0
    /\ \/ falsy(server[c].nextCursor)
       \/ endsWithin(server[c].nextCursor, n - 1)

\* the cursor chain from the first page reaches a page without a next cursor
chainEnds == endsWithin(undefined, Cardinality(Cursors))

\* C18: getAllTools returns when the cursor chain ends (an empty cursor ends
\* it); when the chain loops it never returns and goes on calling listTools
\* for as long as it is let run.
C18_ReturnsIffChainEnds ==
    /\ (listOp = "getAllTools" /\ chainEnds) ~> (listPc = "done")
    /\ []((listOp = "getAllTools" /\ listPc = "done") => chainEnds)
    /\ (listOp = "getAllTools" /\ ~chainEnds) ~> (Len(listToolsCalls) = MaxPages)

C18_Witness ==
    /\ listOp = "getAllTools"
    /\ listPc = "fetch"
    /\ ~chainEnds
    /\ Len(listToolsCalls) >= 4
    /\ listToolsCalls[2] = "c1"
    /\ listToolsCalls[3] = "c1"
    /\ listToolsCalls[4] = "c1"

\* ---------------------------------------------------------------- C14
\* the properties the schema declares, in the order it declares them
declared == schema.properties.entries

propertyAt(key) ==
    LET i == CHOOSE i \in 1..Len(declared) : declared[i].key = key
    IN  declared[i].value

primitiveFieldType ==
    [string |-> "string", number |-> "number", integer |-> "number",
     boolean |-> "boolean", array |-> "array", object |-> "object"]

fieldTypeOfName(name) ==
    IF name \in DOMAIN primitiveFieldType THEN primitiveFieldType[name] ELSE "string"

declaresEnum(p) == p.enum.form = "list" /\ Len(p.enum.items) > 0

optionsInEnumOrder(field, p) ==
    /\ field.type = "options"
    /\ field.options.present
    /\ Len(field.options.items) = Len(p.enum.items)
    /\ \A k \in 1..Len(p.enum.items) :
            field.options.items[k] = [name |-> String(p.enum.items[k]),
                                      value |-> p.enum.items[k]]

\* C14, as stated: a mapped field is 'options' with one {name: String(v), value: v}
\* per enum value in order when its property declares a non-empty enum; otherwise
\* its type follows the table for a `type` that is one of the six names, and is
\* 'string' for every other or absent `type`.
C14_TypeMappingAsStated ==
    mapPc = "returned" =>
        \A i \in 1..Len(fields) :
            LET p == propertyAt(fields[i].id)
            IN  IF declaresEnum(p) THEN optionsInEnumOrder(fields[i], p)
                ELSE fields[i].type =
                        (IF p.type.form = "name" THEN fieldTypeOfName(p.type.name)
                         ELSE "string")

\* the type a property is mapped by: the `type` itself, or the first name when
\* `type` is a list of names
primaryTypeOf(p) ==
    CASE p.type.form = "name" -> p.type.name
      [] p.type.form = "list" /\ Len(p.type.list) > 0 -> p.type.list[1]
      [] OTHER -> ""

\* C14, amended: the same, with the table applied to the primary type of the
\* property: its `type`, or the first element of a `type` that is a list.
C14_TypeMappingByPrimaryType ==
    mapPc = "returned" =>
        \A i \in 1..Len(fields) :
            LET p == propertyAt(fields[i].id)
            IN  IF declaresEnum(p) THEN optionsInEnumOrder(fields[i], p)
                ELSE fields[i].type = fieldTypeOfName(primaryTypeOf(p))

\* a list-typed property mapped by its first name next to an enum mapped to options
C14_Witness ==
    /\ mapPc = "returned"
    /\ \E i \in 1..Len(fields) :
            /\ propertyAt(fields[i].id).type = typeList(<<"integer", "null">>)
            /\ fields[i].type = "number"
    /\ \E i \in 1..Len(fields) :
            /\ fields[i].type = "options"
            /\ fields[i].options.items =
                    <<[name |-> "2", value |-> jsNumber(2)], [name |-> "1", value |-> jsNumber(1)]>>

\* ---------------------------------------------------------------- C15
schemaIsObjectWithProperties ==
    schema.type = typeName("object") /\ schema.properties.present

isRequired(key) == \E k \in 1..Len(requiredFields) : requiredFields[k] = key

\* C15, as stated: no field unless the schema is an object with properties; then
\* one field per declared property in insertion order, with id, required and
\* displayName (key alone when there is no description).
C15_OneFieldPerPropertyInInsertionOrder ==
    mapPc = "returned" =>
        IF ~schemaIsObjectWithProperties THEN fields = <<>>
        ELSE /\ Len(fields) = Len(declared)
             /\ \A i \in 1..Len(fields) :
                    /\ fields[i].id = declared[i].key
                    /\ fields[i].required = isRequired(declared[i].key)
                    /\ fields[i].displayName =
                            (IF declared[i].value.description = undefined
                             THEN declared[i].key
                             ELSE declared[i].key \o " - " \o declared[i].value.description)

positionOf(key) == CHOOSE i \in 1..Len(declared) : declared[i].key = key

\* own-key order: array-index keys by ascending value, then the others as declared
enumeratedBefore(a, b) ==
    IF isArrayIndex(a) /\ isArrayIndex(b) THEN digitsToNumber(a, 0) < digitsToNumber(b, 0)
    ELSE IF isArrayIndex(a) THEN TRUE
    ELSE IF isArrayIndex(b) THEN FALSE
    ELSE positionOf(a) < positionOf(b)

subSchemaKeys == {declared[i].key : i \in {j \in 1..Len(declared) : ~declared[j].value.isBoolean}}

\* C15, amended: no field unless the schema is an object with properties; then one
\* field per declared property whose schema is not a boolean, in own-key order,
\* with id, required and displayName (key alone when the description is absent
\* or empty).
C15_OneFieldPerSubSchemaInKeyOrder ==
    mapPc = "returned" =>
        IF ~schemaIsObjectWithProperties THEN fields = <<>>
        ELSE /\ Len(fields) = Cardinality(subSchemaKeys)
             /\ {fields[i].id : i \in 1..Len(fields)} = subSchemaKeys
             /\ \A i, j \in 1..Len(fields) :
                    i < j => enumeratedBefore(fields[i].id, fields[j].id)
             /\ \A i \in 1..Len(fields) :
                    LET key == fields[i].id
                        description == propertyAt(key).description
                    IN  /\ fields[i].required = isRequired(key)
                        /\ fields[i].displayName =
                                (IF description \in {undefined, ""} THEN key
                                 ELSE key \o " - " \o description)

\* three properties: a boolean schema skipped, key "2" moved ahead of "name"
C15_Witness ==
    /\ mapPc = "returned"
    /\ Len(declared) = 3
    /\ declared[1].key = "name"
    /\ Len(fields) = 2
    /\ fields[1].id = "2"
    /\ fields[1].required
    /\ fields[2].displayName = "name - The id"

\* ---------------------------------------------------------------- C16
\* no undefined under an array or an object, no empty object under an object key
RECURSIVE wellCleaned(_)
wellCleaned(node) ==
    \A i \in 1..Len(node.kids) :
        LET value == node.kids[i].value
        IN  /\ value.t # "undefined"
            /\ node.t = "object" => ~(value.t = "object" /\ value.kids = <<>>)
            /\ wellCleaned(value)

\* C16: cleaning a cleaned tree returns an equal tree, and a cleaned tree holds no
\* object key whose value is undefined or an empty object and no undefined array
\* element.
C16_CleanIsIdempotent ==
    cleanPc = "returned" =>
        /\ cleanParameters(cleaned) = cleaned
        /\ wellCleaned(cleaned)

\* an object lost the key whose nested object became empty only after cleaning
C16_Witness ==
    /\ cleanPc = "returned"
    /\ tree.t = "object"
    /\ \E i \in 1..Len(tree.kids) :
            /\ tree.kids[i].value.t = "object"
            /\ tree.kids[i].value.kids # <<>>
            /\ \A k \in 1..Len(cleaned.kids) : cleaned.kids[k].key # tree.kids[i].key
    /\ cleaned.kids # <<>>

\* ---------------------------------------------------------------- C17
converting == ~convertToBinaryOption.set \/ convertToBinaryOption.value

isMedia(block) == block.type \in {"image", "audio"}

mediaBlocks == SelectSeq(resultContent, isMedia)

otherBlocks == SelectSeq(resultContent, LAMBDA block : ~isMedia(block))

\* the content entry is the block, a text block with its text parsed where it is JSON
staysAs(entry, block) ==
    /\ entry.type = block.type
    /\ entry.data = block.data
    /\ entry.mimeType = block.mimeType
    /\ block.type = "text" =>
            entry.text = (IF block.text = "42" THEN jsNumber(42) ELSE jsString(block.text))

\* C17: with convertToBinary true the j-th image or audio block becomes binary key
\* data_(j-1) and leaves json.content, the other blocks keep their order; with
\* convertToBinary false every block stays in json.content and there is no binary;
\* json.content and binary are absent when empty.
C17_MediaBecomeBinaryInOrder ==
    splitPc = "pushed" =>
        LET kept == IF converting THEN otherBlocks ELSE resultContent
            emitted == IF converting THEN mediaBlocks ELSE <<>>
            content == outputItem.json.content
            binary == outputItem.binary
        IN  /\ Len(content.items) = Len(kept)
            /\ \A i \in 1..Len(kept) : staysAs(content.items[i], kept[i])
            /\ Len(binary.entries) = Len(emitted)
            /\ \A j \in 1..Len(emitted) :
                    /\ binary.entries[j].key = "data_" \o ToString(j - 1)
                    /\ binary.entries[j].value.mimeType = emitted[j].mimeType
                    /\ binary.entries[j].value.data =
                            (IF emitted[j].data = "aGk=" THEN "hi" ELSE "ok")
            /\ content.present <=> kept # <<>>
            /\ binary.present <=> emitted # <<>>

\* image, text "42", audio with conversion on: two binaries and the parsed text
C17_Witness ==
    /\ splitPc = "pushed"
    /\ converting
    /\ Len(resultContent) = 3
    /\ resultContent[2].type = "text"
    /\ Len(outputItem.binary.entries) = 2
    /\ outputItem.binary.entries[2].key = "data_1"
    /\ outputItem.json.content.present
    /\ outputItem.json.content.items[1].text = jsNumber(42)
====
